---- MODULE Spec2Model ----
\* Model of google_podcast_server.py: the dialogue generator
\* (generate_dialogue_turns), the script parser (parse_google_script) and the
\* speaker mapper / converter (call_tool, "convert_to_google_format").
\*
\* Text is a sequence of symbols.  A symbol is a one-character string, or one of
\* the fixed phrases of the source written out as a string: a phrase stands for
\* the run of characters of that literal, which holds no newline, '|' or ':' and
\* neither starts nor ends with whitespace.
EXTENDS Integers, Sequences, FiniteSets, TLC

VARIABLES
    podcast_formats,     \* the module's PODCAST_FORMATS dict, shared by all calls
    google_speakers,     \* the module's GOOGLE_SPEAKERS dict (its keys)
    pc,                  \* position of the server: idle, or the call just served
    topic,               \* generate: arguments
    format_type,
    duration_minutes,
    additional_context,
    script,              \* parse / convert: the script text
    supplied_mapping,    \* convert: the caller's speaker_mapping argument
    speaker_mapping,     \* convert: the mapping object after the call
    sample_turns,        \* generate: the returned turns
    loop_turns,          \* parse: `turns` when the line loop has ended
    turns,               \* parse: the returned turns
    converted_lines,     \* convert: converted_lines
    response,            \* what the call answered: "none", "ok" or "error"
    raised               \* the exception the call ended with, or "none"

vars == <<podcast_formats, google_speakers, pc, topic, format_type, duration_minutes, additional_context, script,
          supplied_mapping, speaker_mapping, sample_turns, loop_turns, turns,
          converted_lines, response, raised>>

-----------------------------------------------------------------------------
\* Bounds of the model.

\* longest script, in symbols, handed to parse
MaxScriptLen == 4

\* longest topic, in symbols
MaxTopicLen == 2

\* largest duration_minutes; the main loop of generate is capped by the ten
\* content prompts from 7 minutes on
MaxDuration == 8

\* longest key_points list
MaxKeyPoints == 2

\* most lines of a script made of sample lines, for parse; three paragraphs
\* need five lines
MaxParseLines == 5

\* longest script, in symbols, handed to convert
MaxConvLen == 4

\* most lines of a script made of sample lines, for convert; the fifth
\* distinct label needs five lines
MaxConvLines == 5

-----------------------------------------------------------------------------
\* Python string primitives.

NL == "\n"

\* str.isspace for the symbols of the model
IsSpace(c) == c \in {" ", "\n", "\t", "\r"}

RECURSIVE lstrip(_)
lstrip(s) ==
    IF s = <<>> THEN <<>>
    ELSE IF IsSpace(Head(s)) THEN lstrip(Tail(s)) ELSE s

RECURSIVE rstrip(_)
rstrip(s) ==
    IF s = <<>> THEN <<>>
    ELSE IF IsSpace(s[Len(s)]) THEN rstrip(SubSeq(s, 1, Len(s) - 1)) ELSE s

\* str.strip()
strip(s) == rstrip(lstrip(s))

\* str.startswith(p)
startswith(s, p) == Len(s) >= Len(p) /\ SubSeq(s, 1, Len(p)) = p

\* c in s
Contains(s, c) == \E i \in 1..Len(s) : s[i] = c

\* str.find(c) + 1: position of the first c, 0 when there is none
RECURSIVE FindFrom(_, _, _)
FindFrom(s, c, i) ==
    IF i > Len(s) THEN 0
    ELSE IF s[i] = c THEN i ELSE FindFrom(s, c, i + 1)

find(s, c) == FindFrom(s, c, 1)

\* str.split(c) for a one-symbol separator: always at least one piece
RECURSIVE split(_, _)
split(s, c) ==
    LET k == find(s, c)
    IN IF k = 0 THEN <<s>>
       ELSE <<SubSeq(s, 1, k - 1)>> \o split(SubSeq(s, k + 1, Len(s)), c)

\* str.split('\n\n'): leftmost non-overlapping occurrences of two newlines
RECURSIVE FindNLNL(_, _)
FindNLNL(s, i) ==
    IF i + 1 > Len(s) THEN 0
    ELSE IF s[i] = NL /\ s[i + 1] = NL THEN i ELSE FindNLNL(s, i + 1)

RECURSIVE split_blank(_)
split_blank(s) ==
    LET k == FindNLNL(s, 1)
    IN IF k = 0 THEN <<s>>
       ELSE <<SubSeq(s, 1, k - 1)>> \o split_blank(SubSeq(s, k + 2, Len(s)))

\* str.upper() of one symbol
UpperChar(c) ==
    CASE c = "r" -> "R"
      [] c = "s" -> "S"
      [] c = "t" -> "T"
      [] c = "u" -> "U"
      [] c = "a" -> "A"
      [] c = "b" -> "B"
      [] OTHER -> c

upper(s) == [i \in 1..Len(s) |-> UpperChar(s[i])]

\* "\n".join(lines)
RECURSIVE join(_)
join(ls) ==
    IF ls = <<>> THEN <<>>
    ELSE IF Len(ls) = 1 THEN ls[1]
    ELSE ls[1] \o <<NL>> \o join(Tail(ls))

-----------------------------------------------------------------------------
\* Registries.

\* keys of the GOOGLE_SPEAKERS literal (lines 30-51)
GOOGLE_SPEAKERS == {"R", "S", "T", "U"}

-----------------------------------------------------------------------------
\* parse_google_script

Turn(sp, tx) == [speaker |-> sp, text |-> tx]

\* re.match(r'^([RSTU]):\s*(.+)$', line): <<group(1), group(2)>>, or <<>> when
\* the line does not match.  \s* is greedy and gives characters back when .+
\* would otherwise be left with nothing; . matches anything but a newline.
ColonMatch(line) ==
    IF Len(line) >= 3 /\ line[1] \in {"R", "S", "T", "U"} /\ line[2] = ":"
       /\ ~Contains(line, NL)
    THEN LET rest == SubSeq(line, 3, Len(line))
             g2 == IF lstrip(rest) # <<>> THEN lstrip(rest) ELSE <<rest[Len(rest)]>>
         IN <<line[1], g2>>
    ELSE <<>>

\* LineTurns with a label that is not upper-cased
LineTurns_NoUpper(raw) ==
    LET line == strip(raw)
    IN IF line = <<>> \/ startswith(line, <<"#">>) \/ startswith(line, <<"/", "/">>)
       THEN <<>>
       ELSE IF Contains(line, "|")
       THEN LET k == find(line, "|")
                speaker == strip(SubSeq(line, 1, k - 1))
                text == strip(SubSeq(line, k + 1, Len(line)))
            IN IF Len(speaker) = 1 /\ speaker[1] \in google_speakers /\ text # <<>>
               THEN <<Turn(speaker[1], text)>>
               ELSE <<>>
       ELSE IF Contains(line, ":")
       THEN LET m == ColonMatch(line)
            IN IF m # <<>> /\ strip(m[2]) # <<>>
               THEN <<Turn(m[1], strip(m[2]))>>
               ELSE <<>>
       ELSE <<>>

\* LineTurns with line.split('|') in the pipe tier: a line with a second '|'
\* has three parts and is dropped
LineTurns_SplitAll(raw) ==
    LET line == strip(raw)
    IN IF line = <<>> \/ startswith(line, <<"#">>) \/ startswith(line, <<"/", "/">>)
       THEN <<>>
       ELSE IF Contains(line, "|")
       THEN LET k == find(line, "|")
                speaker == upper(strip(SubSeq(line, 1, k - 1)))
                text == strip(SubSeq(line, k + 1, Len(line)))
            IN IF Len(speaker) = 1 /\ speaker[1] \in google_speakers /\ text # <<>>
                  /\ ~Contains(SubSeq(line, k + 1, Len(line)), "|")
               THEN <<Turn(speaker[1], text)>>
               ELSE <<>>
       ELSE IF Contains(line, ":")
       THEN LET m == ColonMatch(line)
            IN IF m # <<>> /\ strip(m[2]) # <<>>
               THEN <<Turn(m[1], strip(m[2]))>>
               ELSE <<>>
       ELSE <<>>

\* the body of the line loop, for one line: the turns that line appends
LineTurns(raw) ==
    LET line == strip(raw)
    IN IF line = <<>> \/ startswith(line, <<"#">>) \/ startswith(line, <<"/", "/">>)
       THEN <<>>
       ELSE IF Contains(line, "|")
       THEN LET k == find(line, "|")
                speaker == upper(strip(SubSeq(line, 1, k - 1)))
                text == strip(SubSeq(line, k + 1, Len(line)))
            IN IF Len(speaker) = 1 /\ speaker[1] \in google_speakers /\ text # <<>>
               THEN <<Turn(speaker[1], text)>>
               ELSE <<>>
       ELSE IF Contains(line, ":")
       THEN LET m == ColonMatch(line)
            IN IF m # <<>> /\ strip(m[2]) # <<>>
               THEN <<Turn(m[1], strip(m[2]))>>
               ELSE <<>>
       ELSE <<>>

RECURSIVE LoopTurns(_)
LoopTurns(lines) ==
    IF lines = <<>> THEN <<>>
    ELSE LineTurns(Head(lines)) \o LoopTurns(Tail(lines))

\* lines 292-324: turns after the loop over script.strip().split('\n')
ParseLines(s) == LoopTurns(split(strip(s), NL))

\* Paragraphs that keeps the whitespace around a paragraph
Paragraphs_NoStrip(s) ==
    SelectSeq(split_blank(s), LAMBDA p : strip(p) # <<>>)

\* [p.strip() for p in script.split('\n\n') if p.strip()]
Paragraphs(s) ==
    LET ps == split_blank(s)
    IN SelectSeq([i \in 1..Len(ps) |-> strip(ps[i])], LAMBDA p : p # <<>>)

\* FallbackSpeaker that starts with the second speaker
FallbackSpeaker_FromSecond(i) == <<"R", "S">>[((i + 1) % 2) + 1]

\* speakers[i % len(speakers)] with speakers = ["R", "S"], i from 0
FallbackSpeaker(i) == <<"R", "S">>[(i % 2) + 1]

\* ParseFallback without the paragraph fallback
ParseFallback_LoopOnly(s, found) == found

\* lines 326-337, given the turns of the loop
ParseFallback(s, found) ==
    IF found = <<>> /\ strip(s) # <<>>
    THEN LET paragraphs == Paragraphs(s)
         IN [i \in 1..Len(paragraphs) |-> Turn(FallbackSpeaker(i - 1), paragraphs[i])]
    ELSE found

parse_google_script(s) == ParseFallback(s, ParseLines(s))

-----------------------------------------------------------------------------
\* PODCAST_FORMATS and generate_dialogue_turns

FormatNames == {"dialogue", "interview", "roundtable", "storytelling",
                "educational", "debate"}

\* "speakers" of the entry `name` of the PODCAST_FORMATS literal (lines 55-86)
FormatSpeakers(name) ==
    CASE name = "dialogue" -> <<"R", "S">>
      [] name = "interview" -> <<"R", "S">>
      [] name = "roundtable" -> <<"R", "S", "T", "U">>
      [] name = "storytelling" -> <<"R", "S", "T">>
      [] name = "educational" -> <<"R", "S">>
      [] name = "debate" -> <<"R", "S", "T">>

\* PODCAST_FORMATS.get(format_type, PODCAST_FORMATS["dialogue"])["speakers"]
ResolveSpeakers(name) ==
    IF name \in DOMAIN podcast_formats THEN podcast_formats[name].speakers
    ELSE podcast_formats["dialogue"].speakers

content_prompts ==
    << <<"What's the most important thing people should understand?">>,
       <<"Can you give us a specific example?">>,
       <<"How does this impact our daily lives?">>,
       <<"What are the common misconceptions?">>,
       <<"What does the future hold?">>,
       <<"What challenges do we face?">>,
       <<"Are there any surprising aspects?">>,
       <<"How can people get involved?">>,
       <<"What's your personal experience with this?">>,
       <<"What advice would you give?">> >>

responses ==
    << <<"That's a great question. Let me explain...">>,
       <<"Actually, it's quite fascinating when you look at it closely...">>,
       <<"People often don't realize that...">>,
       <<"From my perspective, the key is...">>,
       <<"What's really interesting is...">>,
       <<"The data shows us that...">>,
       <<"In my experience...">>,
       <<"Here's what I've learned...">>,
       <<"The breakthrough came when...">>,
       <<"This reminds me of...">> >>

reactions ==
    << <<"I'd like to add to that point...">>,
       <<"That's interesting, but have you considered...">>,
       <<"Building on what was just said...">>,
       <<"From another angle...">> >>

Min(a, b) == IF a < b THEN a ELSE b

\* truth value of the additional_context argument: None and {} are false
ContextTruthy(ctx) == ~ctx.isNone /\ ctx.keys # {}

\* lines 110-141: the opening
Opening(tp, fmt, speakers) ==
    IF fmt = "interview"
    THEN << Turn("R", <<"Welcome to today's discussion about", " ">> \o tp \o
                      <<". I'm here with an expert who's going to share fascinating insights with us.">>),
            Turn("S", <<"Thank you for having me! I'm excited to dive into this topic with your listeners.">>) >>
    ELSE IF fmt = "debate"
    THEN << Turn("R", <<"Welcome to our debate on", " ">> \o tp \o
                      <<". We have two distinguished speakers with opposing viewpoints.">>),
            Turn("S", <<"I'm here to argue for the positive aspects and potential benefits.">>),
            Turn("T", <<"And I'll be presenting the concerns and challenges we need to consider.">>) >>
    ELSE << Turn(speakers[1], <<"Let's explore", " ">> \o tp \o <<" ", "together.">>) >>
         \o (IF Len(speakers) > 1
             THEN << Turn(speakers[2], <<"Absolutely! This is such a relevant topic right now.">>) >>
             ELSE <<>>)

\* lines 184-188: the response text of iteration i; the caller has checked that
\* key_points is not empty when the first branch is taken
ResponseText(tp, ctx, i) ==
    LET response_intro == responses[(i % Len(responses)) + 1]
    IN IF ContextTruthy(ctx) /\ "key_points" \in ctx.keys
       THEN LET point == ctx.key_points[(i % Len(ctx.key_points)) + 1]
            IN response_intro \o <<" ", "When it comes to", " ">> \o point \o <<" ", "in", " ">>
               \o tp \o <<", we're seeing significant developments.">>
       ELSE response_intro \o <<" ">> \o tp \o <<" ", "has many dimensions we need to consider.">>

\* lines 172-207: the turns iteration i of the main loop appends
BodyTurns(tp, ctx, speakers, i) ==
    << Turn(speakers[1], content_prompts[(i % Len(content_prompts)) + 1]),
       Turn(speakers[(1 % Len(speakers)) + 1], ResponseText(tp, ctx, i)) >>
    \o (IF Len(speakers) > 2 /\ i % 3 = 0
        THEN << Turn(speakers[(2 % Len(speakers)) + 1], reactions[(i % Len(reactions)) + 1]) >>
        ELSE <<>>)

\* range(n), as the sequence 0 .. n-1 (empty when n <= 0)
RECURSIVE Body(_, _, _, _, _)
Body(tp, ctx, speakers, i, n) ==
    IF i >= n THEN <<>>
    ELSE BodyTurns(tp, ctx, speakers, i) \o Body(tp, ctx, speakers, i + 1, n)

\* lines 210-224: the closing
Closing(tp, speakers) ==
    << Turn(speakers[1], <<"This has been an enlightening discussion about", " ">> \o tp \o
                         <<". Any final thoughts?">>) >>
    \o (IF Len(speakers) > 1
        THEN << Turn(speakers[2], <<"The key takeaway is to stay informed and engaged with these developments.">>) >>
        ELSE <<>>)
    \o << Turn(speakers[1], <<"Thank you for joining us today. Until next time!">>) >>

\* i % len(additional_context["key_points"]) divides by zero in the first
\* iteration of the main loop when key_points is an empty list
DividesByZero(ctx, n) ==
    n > 0 /\ ContextTruthy(ctx) /\ "key_points" \in ctx.keys /\ ctx.key_points = <<>>

\* generate_dialogue_turns: the exception it ends with ("none" for a normal
\* return) and the turns it returns
generate_dialogue_turns(tp, fmt, dur, ctx) ==
    LET speakers == ResolveSpeakers(fmt)
        num_turns == dur * 2
        n == Min(num_turns - 4, Len(content_prompts))
    IN IF DividesByZero(ctx, n)
       THEN [raised |-> "ZeroDivisionError", turns |-> <<>>]
       ELSE [raised |-> "none",
             turns |-> Opening(tp, fmt, speakers) \o Body(tp, ctx, speakers, 0, n)
                       \o Closing(tp, speakers)]

\* line 554: "\n".join([f"{turn['speaker']}|{turn['text']}" for turn in sample_turns])
SampleScript(ts) ==
    join([i \in 1..Len(ts) |-> <<ts[i].speaker, "|">> \o ts[i].text])

-----------------------------------------------------------------------------
\* call_tool, "convert_to_google_format": speaker detection and conversion

\* [A-Za-z] for the symbols of the model
Letters == {"A", "B", "C", "D", "E", "R", "S", "T", "U", "a", "b", "k", "r", "s", "t", "u", "x"}

\* the character class [A-Za-z\s\-\'\.]
IsLabelChar(c) == c \in Letters \/ IsSpace(c) \/ c \in {"-", "'", "."}

\* length of the longest prefix of line made of label characters
RECURSIVE LabelEnd(_, _)
LabelEnd(line, i) ==
    IF i < Len(line) /\ IsLabelChar(line[i + 1]) THEN LabelEnd(line, i + 1) ELSE i

\* \s*: matched from position q + 1: the position of the ':' that follows the
\* whitespace, 0 when something else follows
RECURSIVE ColonAfter(_, _)
ColonAfter(line, q) ==
    IF q >= Len(line) THEN 0
    ELSE IF line[q + 1] = ":" THEN q + 1
    ELSE IF IsSpace(line[q + 1]) THEN ColonAfter(line, q + 1)
    ELSE 0

\* the positions at which ^([A-Za-z\s\-\'\.]+?)(?:\s*\[.*?\])?\s*: can end (the
\* position of its ':'), in the order in which the matcher tries them: the ':'
\* right after the label, or the ':' after each ']' that closes the annotation.
\* A line is a piece of script.split('\n') and holds no newline
ColonEnds(line) ==
    LET p == LabelEnd(line, 0)
    IN IF p < 1 \/ p >= Len(line) THEN <<>>
       ELSE IF line[p + 1] = ":" THEN <<p + 1>>
       ELSE IF line[p + 1] = "["
       THEN LET qs == SelectSeq([q \in 1..Len(line) |-> q],
                                LAMBDA q : q >= p + 2 /\ line[q] = "]"
                                           /\ ColonAfter(line, q) # 0)
            IN [j \in 1..Len(qs) |-> ColonAfter(line, qs[j])]
       ELSE <<>>

\* lines 726-728: re.match of the detection pattern on a raw line;
\* <<match.group(1).strip()>>, or <<>> when the line does not match
DetectMatch(line) ==
    IF Contains(line, ":") /\ ColonEnds(line) # <<>>
    THEN <<strip(SubSeq(line, 1, LabelEnd(line, 0)))>>
    ELSE <<>>

\* lines 748-751: re.match of the conversion pattern, which ends in (.+)$, on
\* a stripped line; <<group(1).strip(), group(2).strip()>>, or <<>>
ConvertMatch(line) ==
    LET ends == SelectSeq(ColonEnds(line), LAMBDA c : c < Len(line))
    IN IF Contains(line, ":") /\ ends # <<>>
       THEN LET rest == SubSeq(line, ends[1] + 1, Len(line))
                g2 == IF lstrip(rest) # <<>> THEN lstrip(rest) ELSE <<rest[Len(rest)]>>
            IN <<strip(SubSeq(line, 1, LabelEnd(line, 0))), strip(g2)>>
       ELSE <<>>

\* x in xs, for a list
InList(xs, x) == \E i \in 1..Len(xs) : xs[i] = x

\* DetectSpeakers that records a speaker each time it is met
RECURSIVE DetectSpeakers_NoDedup(_, _)
DetectSpeakers_NoDedup(lines, speakers) ==
    IF lines = <<>> THEN speakers
    ELSE LET m == DetectMatch(Head(lines))
         IN IF m # <<>> /\ m[1] # <<>>
            THEN DetectSpeakers_NoDedup(Tail(lines), Append(speakers, m[1]))
            ELSE DetectSpeakers_NoDedup(Tail(lines), speakers)

\* lines 720-730: the speakers list, from the list found so far
RECURSIVE DetectSpeakers(_, _)
DetectSpeakers(lines, speakers) ==
    IF lines = <<>> THEN speakers
    ELSE LET m == DetectMatch(Head(lines))
         IN IF m # <<>> /\ m[1] # <<>> /\ ~InList(speakers, m[1])
            THEN DetectSpeakers(Tail(lines), Append(speakers, m[1]))
            ELSE DetectSpeakers(Tail(lines), speakers)

google_ids == <<"R", "S", "T", "U">>

\* speakers[:4]
FirstFour(speakers) == SubSeq(speakers, 1, Min(Len(speakers), 4))

\* lines 719-735: the mapping built from the script.  A dict keeps its keys in
\* insertion order: it is the list of its <<key, value>> entries
AutoMapping(scr) ==
    LET speakers == FirstFour(DetectSpeakers(split(scr, NL), <<>>))
    IN [i \in 1..Len(speakers) |-> <<speakers[i], google_ids[i]>>]

\* line 718: `not speaker_mapping`: the argument is absent or an empty dict
MappingMissing(arg) == ~arg.given \/ arg.entries = <<>>

\* lines 715-735: the mapping the conversion uses
EffectiveMapping(scr, arg) ==
    IF MappingMissing(arg) THEN AutoMapping(scr) ELSE arg.entries

\* speaker_mapping.get(speaker): the value, "" for None
RECURSIVE MappingGet(_, _)
MappingGet(mapping, speaker) ==
    IF mapping = <<>> THEN ""
    ELSE IF Head(mapping)[1] = speaker THEN Head(mapping)[2]
    ELSE MappingGet(Tail(mapping), speaker)

\* ConvertLine that gives the line of an unmapped speaker to R
ConvertLine_DefaultSpeaker(raw, mapping) ==
    LET line == strip(raw)
    IN IF line = <<>> THEN <<>>
       ELSE LET m == ConvertMatch(line)
            IN IF m # <<>> /\ m[2] # <<>>
               THEN << <<(IF MappingGet(mapping, m[1]) # "" THEN MappingGet(mapping, m[1])
                          ELSE "R"), "|">> \o m[2] >>
               ELSE <<>>

\* lines 741-756, for one line: the converted lines it appends
ConvertLine(raw, mapping) ==
    LET line == strip(raw)
    IN IF line = <<>> THEN <<>>
       ELSE LET m == ConvertMatch(line)
            IN IF m # <<>> /\ MappingGet(mapping, m[1]) # "" /\ m[2] # <<>>
               THEN << <<MappingGet(mapping, m[1]), "|">> \o m[2] >>
               ELSE <<>>

\* lines 738-756: converted_lines
RECURSIVE ConvertLines(_, _)
ConvertLines(lines, mapping) ==
    IF lines = <<>> THEN <<>>
    ELSE ConvertLine(Head(lines), mapping) \o ConvertLines(Tail(lines), mapping)

-----------------------------------------------------------------------------
\* Inputs of the model.

\* all texts of at most n symbols over the alphabet A
Texts(A, n) == UNION {[1..k -> A] : k \in 0..n}

\* symbols of the scripts handed to parse
ParseChars == {"R", "s", " ", NL, "|", ":", "#", "/"}

\* "\n".join of every list of at most n lines out of L
LineScripts(L, n) == {join(ls) : ls \in UNION {[1..k -> L] : k \in 0..n}}

\* lines of the longer scripts handed to parse: the shapes of test_script_parsing
\* (pipe, colon), a lower-case label, a colon line with a '|' in its text, a
\* comment and the empty line
ParseSampleLines ==
    { <<"R", "|", "s">>, <<" ", "s", " ", "|", " ", "R">>, <<"S", ":", " ", "R">>,
      <<"R", ":", "s", "|", "R">>, <<"#", "R", "|", "s">>, <<>> }

ParseScripts ==
    Texts(ParseChars, MaxScriptLen) \cup LineScripts(ParseSampleLines, MaxParseLines)

\* symbols of the scripts handed to convert: "A" and "a" are labels that differ
\* in case only, "1" is no label character
ConvChars == {"A", "a", " ", NL, ":", "[", "]", "1"}

\* lines of the longer scripts handed to convert: five labels with a text, one
\* of them with a bracketed annotation, one with a text that holds a '|'
ConvSampleLines ==
    { <<"A", ":", "1">>, <<"B", " ", "[", "1", "]", ":", " ", "1">>,
      <<"C", ":", "|", " ", "1">>, <<"D", ":", "1">>, <<"E", ":", "1">> }

ShortConvScripts == Texts(ConvChars, MaxConvLen)

LongConvScripts == LineScripts(ConvSampleLines, MaxConvLines)

\* the speaker_mapping argument is absent
NoMapping == [given |-> FALSE, entries |-> <<>>]

\* the speaker_mapping argument is a dict with these entries
Mapping(es) == [given |-> TRUE, entries |-> es]

\* speaker_mapping: absent, {}, and two dicts whose ids are not in the order of
\* auto-detection
MappingArgs ==
    { NoMapping, Mapping(<<>>),
      Mapping(<< <<<<"a">>, "R">>, <<<<"A">>, "S">> >>),
      Mapping(<< <<<<"a">>, "T">> >>) }

\* the calls of convert: every short script with every mapping argument, the
\* longer scripts without a mapping
ConvCalls ==
    (ShortConvScripts \X MappingArgs) \cup (LongConvScripts \X {NoMapping})

\* symbols of the topics
TopicChars == {"a", NL, "|"}

Topics == Texts(TopicChars, MaxTopicLen)

\* format_type: the catalog's names and one name that is not in the catalog
FormatArgs == FormatNames \cup {"panel"}

Durations == 1..MaxDuration

\* the key points: texts of one symbol
KeyPointTexts == {<<"k">>, <<NL>>}

KeyPointLists == UNION {[1..k -> KeyPointTexts] : k \in 0..MaxKeyPoints}

\* additional_context = None
NoContext == [isNone |-> TRUE, keys |-> {}, key_points |-> <<>>]

\* a dict with the keys ks; key_points is its value under "key_points"
Context(ks, kp) == [isNone |-> FALSE, keys |-> ks, key_points |-> kp]

\* additional_context: None, {}, a dict without key_points, dicts with
\* key_points (the empty list included), and the dict of the test suite's shape
Contexts ==
    {NoContext, Context({}, <<>>), Context({"tone"}, <<>>)}
    \cup {Context({"key_points"}, kp) : kp \in KeyPointLists}
    \cup {Context({"key_points", "tone"}, <<<<"k">>>>)}

-----------------------------------------------------------------------------
\* The server.

Init ==
    /\ podcast_formats = [name \in FormatNames |-> [speakers |-> FormatSpeakers(name)]]
    /\ google_speakers = GOOGLE_SPEAKERS
    /\ pc = "idle"
    /\ topic = <<>>
    /\ format_type = "dialogue"
    /\ duration_minutes = 1
    /\ additional_context = NoContext
    /\ script = <<>>
    /\ supplied_mapping = NoMapping
    /\ speaker_mapping = <<>>
    /\ sample_turns = <<>>
    /\ loop_turns = <<>>
    /\ turns = <<>>
    /\ converted_lines = <<>>
    /\ response = "none"
    /\ raised = "none"

\* a call of parse_google_script(script)
Parse ==
    /\ pc = "idle"
    /\ \E s \in ParseScripts :
        /\ script' = s
        /\ LET found == ParseLines(s)
           IN /\ loop_turns' = found
              /\ turns' = ParseFallback(s, found)
    /\ pc' = "parsed"
    /\ response' = "ok"
    /\ UNCHANGED <<podcast_formats, google_speakers, topic, format_type,
                   duration_minutes, additional_context, supplied_mapping,
                   speaker_mapping, sample_turns, converted_lines, raised>>

\* Generate with a reaction speaker that is taken off the format's speakers
\* list, which is the list of the catalog itself
Generate_PopsSpeaker ==
    /\ pc = "idle"
    /\ \E tp \in Topics, fmt \in FormatArgs, dur \in Durations, ctx \in Contexts :
        LET r == generate_dialogue_turns(tp, fmt, dur, ctx)
            name == IF fmt \in DOMAIN podcast_formats THEN fmt ELSE "dialogue"
            speakers == podcast_formats[name].speakers
        IN /\ topic' = tp
           /\ format_type' = fmt
           /\ duration_minutes' = dur
           /\ additional_context' = ctx
           /\ raised' = r.raised
           /\ sample_turns' = r.turns
           /\ script' = IF r.raised = "none" THEN SampleScript(r.turns) ELSE <<>>
           /\ response' = IF r.raised = "none" THEN "ok" ELSE "none"
           /\ podcast_formats' =
                  IF Len(speakers) > 2 /\ r.raised = "none"
                  THEN [podcast_formats EXCEPT
                            ![name].speakers = SubSeq(speakers, 1, Len(speakers) - 1)]
                  ELSE podcast_formats
    /\ pc' = "generated"
    /\ UNCHANGED <<google_speakers, supplied_mapping, speaker_mapping, loop_turns, turns,
                   converted_lines>>

\* generate_google_script: the sample turns and, when they were returned, the
\* sample script made of them (lines 546-554)
Generate ==
    /\ pc = "idle"
    /\ \E tp \in Topics, fmt \in FormatArgs, dur \in Durations, ctx \in Contexts :
        LET r == generate_dialogue_turns(tp, fmt, dur, ctx)
        IN /\ topic' = tp
           /\ format_type' = fmt
           /\ duration_minutes' = dur
           /\ additional_context' = ctx
           /\ raised' = r.raised
           /\ sample_turns' = r.turns
           /\ script' = IF r.raised = "none" THEN SampleScript(r.turns) ELSE <<>>
           /\ response' = IF r.raised = "none" THEN "ok" ELSE "none"
    /\ pc' = "generated"
    /\ UNCHANGED <<podcast_formats, google_speakers, supplied_mapping, speaker_mapping,
                   loop_turns, turns, converted_lines>>

\* the sample script is handed to parse_google_script
ParseSample ==
    /\ pc = "generated"
    /\ raised = "none"
    /\ LET found == ParseLines(script)
       IN /\ loop_turns' = found
          /\ turns' = ParseFallback(script, found)
    /\ pc' = "reparsed"
    /\ UNCHANGED <<podcast_formats, google_speakers, topic, format_type,
                   duration_minutes, additional_context, script, supplied_mapping,
                   speaker_mapping, sample_turns, converted_lines, response, raised>>

\* convert_to_google_format (lines 707-778).  The answer is an error when the
\* script is empty and when no line was converted
Convert ==
    /\ pc = "idle"
    /\ \E call \in ConvCalls :
        LET s == call[1]
            arg == call[2]
            mapping == EffectiveMapping(s, arg)
            lines == ConvertLines(split(s, NL), mapping)
        IN /\ script' = s
           /\ supplied_mapping' = arg
           /\ IF s = <<>>
              THEN /\ speaker_mapping' = arg.entries
                   /\ converted_lines' = <<>>
                   /\ response' = "error"
              ELSE /\ speaker_mapping' = mapping
                   /\ converted_lines' = lines
                   /\ response' = IF lines = <<>> THEN "error" ELSE "ok"
    /\ pc' = "converted"
    /\ UNCHANGED <<podcast_formats, google_speakers, topic, format_type,
                   duration_minutes, additional_context, sample_turns, loop_turns,
                   turns, raised>>

\* the converted script ("\n".join(converted_lines), line 764) is handed to
\* parse_google_script, as create_google_audio does with its script
ParseConverted ==
    /\ pc = "converted"
    /\ response = "ok"
    /\ LET found == ParseLines(join(converted_lines))
       IN /\ loop_turns' = found
          /\ turns' = ParseFallback(join(converted_lines), found)
    /\ pc' = "converted_parsed"
    /\ UNCHANGED <<podcast_formats, google_speakers, topic, format_type,
                   duration_minutes, additional_context, script, supplied_mapping,
                   speaker_mapping, sample_turns, converted_lines, response, raised>>

\* the result is handed back, the call's locals are gone and the server waits
\* for the next call; the module's dicts stay
Return ==
    /\ pc \in {"parsed", "generated", "reparsed", "converted", "converted_parsed"}
    /\ pc' = "idle"
    /\ topic' = <<>>
    /\ format_type' = "dialogue"
    /\ duration_minutes' = 1
    /\ additional_context' = NoContext
    /\ script' = <<>>
    /\ supplied_mapping' = NoMapping
    /\ speaker_mapping' = <<>>
    /\ sample_turns' = <<>>
    /\ loop_turns' = <<>>
    /\ turns' = <<>>
    /\ converted_lines' = <<>>
    /\ response' = "none"
    /\ raised' = "none"
    /\ UNCHANGED <<podcast_formats, google_speakers>>

NextParse == Parse \/ Return

SpecParse == Init /\ [][NextParse]_vars

NextGen == Generate \/ ParseSample \/ Return

SpecGen == Init /\ [][NextGen]_vars

NextConvert == Convert \/ ParseConverted \/ Return

SpecConvert == Init /\ [][NextConvert]_vars

Next == Generate \/ ParseSample \/ Parse \/ Convert \/ ParseConverted \/ Return

Spec == Init /\ [][Next]_vars

-----------------------------------------------------------------------------
\* Properties of generate and of the round trip through the sample script.

Range(f) == {f[i] : i \in DOMAIN f}

\* C1: the turns parse returns for the sample script made of generate's turns
\* are generate's turns: same length, same order, same speaker and text
C1_RoundTrip ==
    pc = "reparsed" => turns = sample_turns

\* a round trip that has been made, and that loses nothing
C1_Witness ==
    pc = "reparsed" /\ turns = sample_turns /\ Len(turns) >= 4

\* C2: for a format of the catalog, generate returns at least 4 turns, each
\* spoken by a member of the format's speakers
C2_LengthAndSpeakers ==
    (pc = "generated" /\ format_type \in FormatNames)
        => /\ raised = "none"
           /\ Len(sample_turns) >= 4
           /\ \A i \in 1..Len(sample_turns) :
                  sample_turns[i].speaker \in Range(FormatSpeakers(format_type))

-----------------------------------------------------------------------------
\* Properties of parse.

\* the lines of a script
ScriptLines(s) == split(s, NL)

BlankLine(l) == strip(l) = <<>>

CommentLine(l) == startswith(strip(l), <<"#">>) \/ startswith(strip(l), <<"/", "/">>)

\* label, '|', text: the label is canonical once trimmed and upper-cased, the
\* text is not empty once trimmed
ValidPipeLine(l) ==
    LET t == strip(l)
        k == find(t, "|")
    IN /\ k > 0
       /\ upper(strip(SubSeq(t, 1, k - 1))) \in {<<"R">>, <<"S">>, <<"T">>, <<"U">>}
       /\ strip(SubSeq(t, k + 1, Len(t))) # <<>>

\* one of R/S/T/U, ':', text: the text is not empty once trimmed
ValidColonLine(l) ==
    LET t == strip(l)
    IN /\ Len(t) >= 3
       /\ t[1] \in {"R", "S", "T", "U"}
       /\ t[2] = ":"
       /\ strip(SubSeq(t, 3, Len(t))) # <<>>

\* the turn a valid line stands for
LineTurn(l) ==
    LET t == strip(l)
        k == find(t, "|")
    IN IF ValidPipeLine(l)
       THEN Turn(upper(strip(SubSeq(t, 1, k - 1)))[1], strip(SubSeq(t, k + 1, Len(t))))
       ELSE Turn(t[1], strip(SubSeq(t, 3, Len(t))))

\* the non-blank, non-comment lines of a script, in source order
DialogueLines(s) ==
    SelectSeq(ScriptLines(s), LAMBDA l : ~BlankLine(l) /\ ~CommentLine(l))

\* one turn per non-blank, non-comment line, in source order
ExpectedTurns(s) ==
    LET d == DialogueLines(s)
    IN [i \in 1..Len(d) |-> LineTurn(d[i])]

\* every non-blank, non-comment line is a valid pipe line or a valid colon line
AllLinesValid(s) ==
    LET d == DialogueLines(s)
    IN \A i \in 1..Len(d) : ValidPipeLine(d[i]) \/ ValidColonLine(d[i])

\* ... and no colon line holds a '|'
AllLinesValidNoPipeInColon(s) ==
    LET d == DialogueLines(s)
    IN \A i \in 1..Len(d) :
           \/ ValidPipeLine(d[i])
           \/ ValidColonLine(d[i]) /\ ~Contains(d[i], "|")

RejectedLine(l) ==
    \/ CommentLine(l)
    \/ ~BlankLine(l) /\ Contains(l, "|") /\ ~ValidPipeLine(l)

\* the script without its rejected lines: each is replaced by an empty line
WithoutRejected(s) ==
    LET ls == ScriptLines(s)
    IN join([i \in 1..Len(ls) |-> IF RejectedLine(ls[i]) THEN <<>> ELSE ls[i]])

\* C4: rejected lines contribute nothing to the result: parse returns what it
\* returns for the script without them
C4_RejectedContributeNothing ==
    pc = "parsed" => turns = parse_google_script(WithoutRejected(script))

\* a script with a rejected line has been parsed to the turns of its other lines
C4_Witness ==
    /\ pc = "parsed"
    /\ \E i \in 1..Len(ScriptLines(script)) : RejectedLine(ScriptLines(script)[i])
    /\ turns # <<>>
    /\ turns = parse_google_script(WithoutRejected(script))

\* the paragraphs of a script, read symbol by symbol: two newlines in a row end
\* the paragraph read so far
RECURSIVE ReadParagraphs(_, _)
ReadParagraphs(s, cur) ==
    IF s = <<>> THEN <<cur>>
    ELSE IF Len(s) >= 2 /\ s[1] = NL /\ s[2] = NL
    THEN <<cur>> \o ReadParagraphs(SubSeq(s, 3, Len(s)), <<>>)
    ELSE ReadParagraphs(Tail(s), Append(cur, Head(s)))

\* the trimmed, non-empty paragraphs, in source order
NonEmptyParagraphs(s) ==
    LET ps == ReadParagraphs(s, <<>>)
    IN SelectSeq([i \in 1..Len(ps) |-> strip(ps[i])], LAMBDA q : q # <<>>)

\* C5: the paragraph fallback runs exactly when the two tiers found no turn and
\* the script is not blank; it then returns one turn per non-empty paragraph,
\* the k-th (from 0) by R when k is even and by S when k is odd; otherwise the
\* result is the turns of the tiers
C5_ParagraphFallback ==
    pc = "parsed"
        => IF loop_turns = <<>> /\ strip(script) # <<>>
           THEN LET ps == NonEmptyParagraphs(script)
                IN /\ Len(turns) = Len(ps)
                   /\ \A k \in 1..Len(ps) :
                          /\ turns[k].text = ps[k]
                          /\ turns[k].speaker = IF (k - 1) % 2 = 0 THEN "R" ELSE "S"
           ELSE turns = loop_turns

\* the fallback has split a script into three paragraphs
C5_Witness ==
    /\ pc = "parsed"
    /\ loop_turns = <<>>
    /\ Len(turns) = 3
    /\ turns[1].speaker = "R" /\ turns[2].speaker = "S" /\ turns[3].speaker = "R"

\* C6: every turn parse returns has a speaker among R, S, T, U and a text that
\* is not empty and neither starts nor ends with whitespace
C6_TurnsWellFormed ==
    pc = "parsed"
        => \A i \in 1..Len(turns) :
               /\ turns[i].speaker \in {"R", "S", "T", "U"}
               /\ turns[i].text # <<>>
               /\ ~IsSpace(turns[i].text[1])
               /\ ~IsSpace(turns[i].text[Len(turns[i].text)])

\* parse has returned a turn for a line whose text had whitespace around it
C6_Witness ==
    /\ pc = "parsed"
    /\ loop_turns # <<>>
    /\ \E i \in 1..Len(script) - 1 : script[i] = "|" /\ script[i + 1] = " "
    /\ turns = loop_turns
-----------------------------------------------------------------------------
\* Properties of the speaker mapper and converter.

\* the label the detection pattern finds at the start of a line, <<>> for none
LineLabel(l) == IF DetectMatch(l) # <<>> THEN DetectMatch(l)[1] ELSE <<>>

\* the labels of the lines of a script, line by line
LineLabels(s) == [i \in 1..Len(ScriptLines(s)) |-> LineLabel(ScriptLines(s)[i])]

\* the distinct labels of a script
ScriptLabels(s) == Range(LineLabels(s)) \ {<<>>}

\* the line of a label's first appearance, given the labels line by line
FirstAppearance(ls, lab) ==
    CHOOSE i \in 1..Len(ls) : ls[i] = lab /\ \A j \in 1..(i - 1) : ls[j] # lab

MappingKeys(m) == {m[k][1] : k \in 1..Len(m)}

\* C7: without a supplied mapping, the mapping has at most 4 entries; its keys
\* are the first four distinct labels of the script in the order of their first
\* appearance, and the k-th key is mapped to the k-th of R, S, T, U
C7_AutoMapping ==
    (pc = "converted" /\ ~supplied_mapping.given /\ script # <<>>)
        => LET m == speaker_mapping
               ls == LineLabels(script)
               labels == Range(ls) \ {<<>>}
               first == [k \in 1..Len(m) |-> FirstAppearance(ls, m[k][1])]
           IN /\ Len(m) <= 4
              /\ Len(m) = Min(Cardinality(labels), 4)
              /\ \A k \in 1..Len(m) :
                     /\ m[k][1] \in labels
                     /\ m[k][2] = <<"R", "S", "T", "U">>[k]
              /\ \A j, k \in 1..Len(m) :
                     j < k => /\ m[j][1] # m[k][1]
                              /\ m[j][2] # m[k][2]
                              /\ first[j] < first[k]
              /\ \A lab \in labels \ MappingKeys(m) :
                     \A k \in 1..Len(m) : first[k] < FirstAppearance(ls, lab)

\* a script with five distinct labels has been mapped: the fifth has no entry
C7_Witness ==
    /\ pc = "converted"
    /\ ~supplied_mapping.given
    /\ Cardinality(ScriptLabels(script)) = 5
    /\ Len(speaker_mapping) = 4

\* id of a label in a mapping, "" when it is no key
IdOf(m, lab) == IF \E k \in 1..Len(m) : m[k][1] = lab
                THEN m[CHOOSE k \in 1..Len(m) : m[k][1] = lab][2]
                ELSE ""

\* a line qualifies: it matches the label/text pattern, its label is a key of
\* the mapping and its text is not empty once trimmed
Qualifies(l, m) ==
    /\ ConvertMatch(l) # <<>>
    /\ IdOf(m, ConvertMatch(l)[1]) # ""
    /\ ConvertMatch(l)[2] # <<>>

QualifyingLines(s, m) == SelectSeq(ScriptLines(s), LAMBDA l : Qualifies(l, m))

\* C8: the converted lines are, in source order, one line '<id>|<text>' for
\* each qualifying line of the script, and nothing else
C8_ConvertedSubsequence ==
    (pc = "converted" /\ script # <<>>)
        => LET q == QualifyingLines(script, speaker_mapping)
           IN /\ Len(converted_lines) = Len(q)
              /\ \A i \in 1..Len(q) :
                     converted_lines[i]
                         = <<IdOf(speaker_mapping, ConvertMatch(q[i])[1]), "|">>
                           \o ConvertMatch(q[i])[2]

\* under auto-mapping a script with five labels has been converted: the lines
\* of the first four are emitted and the line of the fifth is not
C8_Witness ==
    /\ pc = "converted"
    /\ ~supplied_mapping.given
    /\ Cardinality(ScriptLabels(script)) = 5
    /\ Len(ScriptLines(script)) = 5
    /\ Len(converted_lines) = 4

\* C9: with a supplied mapping, labels are looked up in the supplied entries
\* and the mapping has the same entries after the call as before it
C9_SuppliedMappingUsedAsIs ==
    (pc = "converted" /\ supplied_mapping.given /\ script # <<>>)
        => /\ speaker_mapping = supplied_mapping.entries
           /\ converted_lines
                  = ConvertLines(ScriptLines(script), supplied_mapping.entries)

\* a supplied mapping with entries has been used for a conversion
C9_Witness ==
    /\ pc = "converted"
    /\ supplied_mapping.given
    /\ supplied_mapping.entries # <<>>
    /\ speaker_mapping = supplied_mapping.entries
    /\ converted_lines # <<>>

\* C10: under auto-mapping every entry of the mapping comes from a line the
\* conversion pattern matches, and has at least one line in the output
C10_DetectedLabelsAreConverted ==
    (pc = "converted" /\ ~supplied_mapping.given /\ script # <<>>)
        => \A k \in 1..Len(speaker_mapping) :
               /\ \E i \in 1..Len(ScriptLines(script)) :
                      /\ ConvertMatch(strip(ScriptLines(script)[i])) # <<>>
                      /\ ConvertMatch(strip(ScriptLines(script)[i]))[1]
                             = speaker_mapping[k][1]
               /\ \E i \in 1..Len(converted_lines) :
                      converted_lines[i][1] = speaker_mapping[k][2]

\* an auto-detected mapping each of whose entries has a line in the output
C10_Witness ==
    /\ pc = "converted"
    /\ ~supplied_mapping.given
    /\ Len(speaker_mapping) >= 2
    /\ \A k \in 1..Len(speaker_mapping) :
           \E i \in 1..Len(converted_lines) :
               converted_lines[i][1] = speaker_mapping[k][2]

-----------------------------------------------------------------------------
\* Properties of generate's body: the filler of the response turns, the
\* fallback for unknown formats, totality, determinism and the exact shape.

Max(a, b) == IF a > b THEN a ELSE b

\* speakerList: the speakers of the format as the catalog is written, those of
\* "dialogue" for a name that is not in it
SpeakerList(fmt) ==
    IF fmt \in FormatNames THEN FormatSpeakers(fmt) ELSE FormatSpeakers("dialogue")

\* k: the number of iterations of the body, from N = 2 * durationMinutes
BodyCount(dur) == Max(0, Min(2 * dur - 4, Len(content_prompts)))

\* the number of turns of the opening
OpeningCount(fmt) == IF fmt = "debate" THEN 3 ELSE 2

\* the number of reaction turns the iterations before iteration i emit
ReactionsBefore(speakers, i) ==
    IF Len(speakers) > 2 THEN Cardinality({j \in 0..(i - 1) : j % 3 = 0}) ELSE 0

\* the position, in the result, of the response turn of iteration i
ResponseIndex(fmt, speakers, i) ==
    OpeningCount(fmt) + 2 * i + ReactionsBefore(speakers, i) + 2

\* the context has key_points and that sequence is not empty
HasKeyPoints(ctx) ==
    ~ctx.isNone /\ "key_points" \in ctx.keys /\ ctx.key_points # <<>>

\* the generic topic filler of iteration i
GenericFiller(tp, i) ==
    responses[(i % Len(responses)) + 1] \o <<" ">> \o tp
        \o <<" ", "has many dimensions we need to consider.">>

\* the filler of iteration i that references key point i mod len(key_points)
KeyPointFiller(tp, kp, i) ==
    responses[(i % Len(responses)) + 1] \o <<" ", "When it comes to", " ">>
        \o kp[(i % Len(kp)) + 1] \o <<" ", "in", " ">> \o tp
        \o <<", we're seeing significant developments.">>

\* the filler the response turn of iteration i is to carry
ExpectedFiller(tp, ctx, i) ==
    IF HasKeyPoints(ctx) THEN KeyPointFiller(tp, ctx.key_points, i)
    ELSE GenericFiller(tp, i)

\* the context without its keys other than key_points
OnlyKeyPoints(ctx) ==
    IF ctx.isNone THEN ctx
    ELSE Context(ctx.keys \cap {"key_points"}, ctx.key_points)

\* C11: generate returns; the response turn of every body iteration i carries
\* the filler of key point i mod len(key_points) when the context has a
\* non-empty key_points and the generic topic filler in every other case; and
\* the turns are those generated for the context without its other keys
C11_FillerSelection ==
    pc = "generated"
        => LET speakers == SpeakerList(format_type)
           IN /\ raised = "none"
              /\ \A i \in 0..(BodyCount(duration_minutes) - 1) :
                     /\ ResponseIndex(format_type, speakers, i) <= Len(sample_turns)
                     /\ sample_turns[ResponseIndex(format_type, speakers, i)].text
                            = ExpectedFiller(topic, additional_context, i)
              /\ sample_turns
                     = generate_dialogue_turns(topic, format_type, duration_minutes,
                                               OnlyKeyPoints(additional_context)).turns

\* a body longer than the key points, so that the key points are cycled, in a
\* format with reaction turns and a context with another key
C11_Witness ==
    /\ pc = "generated"
    /\ raised = "none"
    /\ HasKeyPoints(additional_context)
    /\ "tone" \in additional_context.keys
    /\ BodyCount(duration_minutes) > Len(additional_context.key_points)
    /\ Len(SpeakerList(format_type)) > 2
    /\ \A i \in 0..(BodyCount(duration_minutes) - 1) :
           sample_turns[ResponseIndex(format_type, SpeakerList(format_type), i)].text
               = ExpectedFiller(topic, additional_context, i)

\* C12: for a format name that is not in the catalog generate signals no error
\* and returns the turns it returns for "dialogue" and the same other arguments
C12_UnknownFormatFallback ==
    (pc = "generated" /\ format_type \notin FormatNames)
        => /\ raised = "none"
           /\ sample_turns
                  = generate_dialogue_turns(topic, "dialogue", duration_minutes,
                                            additional_context).turns

\* an unknown format name for which the turns of "dialogue" were returned, body
\* included
C12_Witness ==
    /\ pc = "generated"
    /\ format_type \notin FormatNames
    /\ raised = "none"
    /\ BodyCount(duration_minutes) > 0
    /\ sample_turns
           = generate_dialogue_turns(topic, "dialogue", duration_minutes,
                                     additional_context).turns

\* C13: every call of generate, parse and convert ends with a normal result
\* (turns, the converted text or the 'nothing recognized' answer) and none ends
\* with an exception
C13_Totality ==
    pc \in {"generated", "reparsed", "parsed", "converted", "converted_parsed"}
        => /\ raised = "none"
           /\ response \in {"ok", "error"}

\* a call of generate with an empty key_points that has returned: the body is
\* empty for a duration of at most 2 minutes
C13_Witness ==
    /\ pc = "generated"
    /\ raised = "none"
    /\ ~additional_context.isNone
    /\ "key_points" \in additional_context.keys
    /\ additional_context.key_points = <<>>
    /\ Len(sample_turns) = OpeningCount(format_type) + 3

\* the turns of body iteration i: the prompt, the response and, for more than
\* two speakers and i mod 3 = 0, the reaction
IterationTurns(tp, ctx, sl, i) ==
    << Turn(sl[1], content_prompts[i + 1]), Turn(sl[2], ExpectedFiller(tp, ctx, i)) >>
    \o (IF Len(sl) > 2 /\ i % 3 = 0
        THEN << Turn(sl[3], reactions[(i % Len(reactions)) + 1]) >>
        ELSE <<>>)

\* the turns of the iterations i .. k-1
RECURSIVE IterationsFrom(_, _, _, _, _)
IterationsFrom(tp, ctx, sl, i, k) ==
    IF i >= k THEN <<>>
    ELSE IterationTurns(tp, ctx, sl, i) \o IterationsFrom(tp, ctx, sl, i + 1, k)

\* the key_points of the context is the empty list and the body has an iteration
EmptyKeyPointsRead(dur, ctx) ==
    /\ BodyCount(dur) > 0
    /\ ~ctx.isNone
    /\ "key_points" \in ctx.keys
    /\ ctx.key_points = <<>>

\* the outcome of generate as a function of its four arguments alone
OutcomeOf(tp, fmt, dur, ctx) ==
    IF EmptyKeyPointsRead(dur, ctx)
    THEN [raised |-> "ZeroDivisionError", turns |-> <<>>]
    ELSE [raised |-> "none",
          turns |-> Opening(tp, fmt, SpeakerList(fmt))
                    \o IterationsFrom(tp, ctx, SpeakerList(fmt), 0, BodyCount(dur))
                    \o Closing(tp, SpeakerList(fmt))]

\* C14: whatever calls were served before, the format catalog and the speaker
\* registry are as the module wrote them, a call of generate ends as its four
\* arguments alone determine, and between two calls the server is in the one
\* state it started in
C14_Deterministic ==
    /\ podcast_formats = [name \in FormatNames |-> [speakers |-> FormatSpeakers(name)]]
    /\ google_speakers = GOOGLE_SPEAKERS
    /\ pc \in {"generated", "reparsed"}
           => LET o == OutcomeOf(topic, format_type, duration_minutes, additional_context)
              IN raised = o.raised /\ sample_turns = o.turns
    /\ pc = "idle" => Init

\* a call of generate that read the catalog (three speakers, reactions) and
\* returned turns, with the catalog as it was
C14_Witness ==
    /\ pc = "generated"
    /\ raised = "none"
    /\ podcast_formats["storytelling"].speakers = <<"R", "S", "T">>
    /\ format_type = "storytelling"
    /\ BodyCount(duration_minutes) >= 4
    /\ sample_turns
           = OutcomeOf(topic, format_type, duration_minutes, additional_context).turns

\* the number of turns of the closing
ClosingCount(sl) == IF Len(sl) > 1 THEN 3 ELSE 2

\* openingCount + 2k + (the number of i < k with i mod 3 = 0 when there are more
\* than 2 speakers) + closingCount
TotalLength(fmt, dur) ==
    OpeningCount(fmt) + 2 * BodyCount(dur)
        + ReactionsBefore(SpeakerList(fmt), BodyCount(dur))
        + ClosingCount(SpeakerList(fmt))

\* C15: generate returns opening, k = max(0, min(N - 4, 10)) body iterations
\* and closing; iteration i is prompt i by speakerList[0], a response by
\* speakerList[1] and, only for more than 2 speakers and i mod 3 = 0, reaction
\* phrase i mod 4 by speakerList[2]; the total length is the sum of the parts,
\* and for 7 minutes or more it is the length for 7 minutes
C15_ExactShape ==
    pc = "generated"
        => LET sl == SpeakerList(format_type)
               k == BodyCount(duration_minutes)
           IN /\ raised = "none"
              /\ Len(sample_turns) = TotalLength(format_type, duration_minutes)
              /\ duration_minutes >= 7
                     => Len(sample_turns) = TotalLength(format_type, 7)
              /\ \A i \in 0..(k - 1) :
                     LET r == ResponseIndex(format_type, sl, i)
                     IN /\ sample_turns[r - 1] = Turn(sl[1], content_prompts[i + 1])
                        /\ sample_turns[r].speaker = sl[2]
                        /\ (Len(sl) > 2 /\ i % 3 = 0)
                               => sample_turns[r + 1]
                                      = Turn(sl[3], reactions[(i % 4) + 1])
                        /\ ~(Len(sl) > 2 /\ i % 3 = 0)
                               => ResponseIndex(format_type, sl, i + 1) = r + 2
              /\ SubSeq(sample_turns, 1, OpeningCount(format_type))
                     = Opening(topic, format_type, sl)
              /\ SubSeq(sample_turns, Len(sample_turns) - ClosingCount(sl) + 1,
                        Len(sample_turns))
                     = Closing(topic, sl)

\* a result with all ten iterations, for more than 7 minutes and a format with
\* reaction turns: the last turn of the body is the reaction of iteration 9
C15_Witness ==
    /\ pc = "generated"
    /\ raised = "none"
    /\ duration_minutes > 7
    /\ Len(SpeakerList(format_type)) > 2
    /\ BodyCount(duration_minutes) = Len(content_prompts)
    /\ Len(sample_turns) = TotalLength(format_type, 7)
    /\ sample_turns[Len(sample_turns) - ClosingCount(SpeakerList(format_type))]
           = Turn("T", reactions[(9 % 4) + 1])

-----------------------------------------------------------------------------
\* Properties of parse's empty result and of parse applied to convert's output.

\* the script has no character that is not whitespace
BlankScript(s) == \A i \in 1..Len(s) : IsSpace(s[i])

\* C16: parse returns the empty sequence exactly when the script is empty or
\* whitespace only
C16_EmptyIffBlank ==
    pc = "parsed" => (turns = <<>> <=> BlankScript(script))

\* a script that is not blank and in which the line loop found no turn: the
\* turns come from the paragraph fallback
C16_Witness ==
    /\ pc = "parsed"
    /\ ~BlankScript(script)
    /\ loop_turns = <<>>
    /\ turns # <<>>

\* the turn a converted line <id>|<text> stands for
ConvertedTurn(cl) == Turn(cl[1], SubSeq(cl, 3, Len(cl)))

\* C17: parse of the converted script of an auto-detected mapping returns one
\* turn per converted line, in the same order, with that line's identifier as
\* its speaker and that line's text as its text; all of them come from the
\* line loop
C17_ConvertedParses ==
    (pc = "converted_parsed" /\ MappingMissing(supplied_mapping))
        => /\ Len(turns) = Len(converted_lines)
           /\ \A i \in 1..Len(turns) : turns[i] = ConvertedTurn(converted_lines[i])
           /\ loop_turns = turns

\* a converted script of several lines, with more than one identifier and a
\* text that holds a '|', that has been parsed
C17_Witness ==
    /\ pc = "converted_parsed"
    /\ MappingMissing(supplied_mapping)
    /\ Len(converted_lines) >= 3
    /\ \E i, j \in 1..Len(converted_lines) :
           /\ converted_lines[i][1] # converted_lines[j][1]
           /\ Contains(SubSeq(converted_lines[i], 3, Len(converted_lines[i])), "|")
    /\ \A i \in 1..Len(turns) : turns[i] = ConvertedTurn(converted_lines[i])

====
